---- MODULE Spec2Model ----
(***************************************************************************)
(* Model of the usage ledger (backend/app/agents/usage_tracker.py) and of  *)
(* the multi-expense orchestrator                                          *)
(* (backend/app/agents/multi_expense_parser.py, expense_parser.py).        *)
(*                                                                         *)
(* Money is counted in nano-dollars (1e-9 USD) so that the pricing table   *)
(* and round(x, 6) are exact integer operations.                           *)
(***************************************************************************)
EXTENDS Integers, Sequences, FiniteSets, TLC

VARIABLES
    store,          \* the user's document in collection 'users'
    callers,        \* per log_usage call in flight: position and locals
    clock,          \* datetime.now(): a logical timestamp
    current_month,  \* datetime.now().strftime("%Y-%m"), as a month number
    history,        \* ghost: request_data of every committed merge, in order
    started,        \* ghost: number of log_usage calls started
    opc,            \* parse_multiple_expenses: position of the call
    text,           \* parse_multiple_expenses: the text argument
    expense_texts,  \* the fragments the splitter returned
    units,          \* the futures submitted to the pool, by fragment index
    expenses,       \* the local list of successes
    errors,         \* the local list of error strings
    deadline,       \* as_completed's timeout has elapsed
    timedOut,       \* as_completed has raised its TimeoutError
    atDeadline,     \* ghost: the units' progress when the deadline elapsed
    parsed,         \* ghost: fragment index -> what parse_expense returned for it
    via,            \* ghost: the branch split_multi_expense_text returned by
    result,         \* the MultiExpenseResult returned
    answer,         \* ghost: what the splitter's delegation came back with
    calls,          \* ghost: number of parse_expense invocations of this batch
    pool,           \* ghost: the ThreadPoolExecutor has been constructed
    failures,       \* ghost: number of log_usage calls the store failed
    qpc,            \* usage query: position of the call
    qdoc,           \* usage query: the user's document as the query reads it
    qres,           \* usage query: what the call returned or raised
    qarg,           \* usage query: the months or limit argument
    today,          \* datetime.now() of a usage query, in days since the epoch
    query_text,     \* parse_multi_expense: query.text, character by character
    expense_type,   \* parse_multi_expense: what detect_expense_count answered
    save_to_db,     \* parse_multi_expense: query.save_to_db
    saved,          \* the documents added to the expenses collection
    epc,            \* parse_multi_expense: position of the request
    tracked         \* a call of a function decorated with track_ai_usage

ledgerVars == <<store, callers, clock, current_month, history, started, failures>>

batchVars == <<opc, text, expense_texts, units, expenses, errors, deadline,
               timedOut, atDeadline, parsed, via, result, answer, calls, pool>>

queryVars == <<qpc, qdoc, qres, qarg, today>>

endpointVars == <<query_text, expense_type, save_to_db, saved, epc, tracked>>

vars == <<store, callers, clock, current_month, history, started, failures,
          opc, text, expense_texts, units, expenses, errors, deadline,
          timedOut, atDeadline, parsed, via, result, answer, calls, pool,
          qpc, qdoc, qres, qarg, today,
          query_text, expense_type, save_to_db, saved, epc, tracked>>

\* ------------------------------------------------------------- bounds
NumCallers == 2
MaxConcEvents == 3
MaxSeqEvents == 3
MaxCapEvents == 102
MaxMonth == 2
MaxFragments == 3
MaxTextLen == 3
MaxMeterEvents == 3
MaxPoolFragments == 6
MaxQueryEvents == 2
MaxMonthsArg == 3
MaxLimit == 3
MaxChars == 4
MaxProfileEvents == 2
MaxTrackedCalls == 2

\* ------------------------------------------------------- event inputs
Agents == {"multi_expense_parser_splitter", "tag_generator"}
Models == {"gpt-4.1-nano", "gpt-4o"}
\* <<input tokens, output tokens>> as count_tokens returns them
TokenPairs == {<<0, 0>>, <<2, 1>>}
Events == [agent : Agents, model : Models, tokens : TokenPairs]
CapEvents == {[agent |-> "tag_generator", model |-> "gpt-4.1-nano", tokens |-> <<2, 1>>]}
Callers == 1..NumCallers

\* ----------------------------------------------------------- helpers
EmptyDict == [k \in {} |-> 0]

RECURSIVE SumOver(_, _, _)
\* sum over the keys ks of f[k][field]
SumOver(f, ks, field) ==
    IF ks = {} THEN 0
    ELSE LET k == CHOOSE x \in ks : TRUE
         IN f[k][field] + SumOver(f, ks \ {k}, field)

SumField(f, field) == SumOver(f, DOMAIN f, field)

RECURSIVE SumTokens(_)
\* sum of tokens.total over a sequence of request_data
SumTokens(s) ==
    IF s = <<>> THEN 0 ELSE Head(s).tokens.total + SumTokens(Tail(s))

\* the last n elements of s: s[-n:] for 0 < n
LastN(s, n) ==
    IF Len(s) <= n THEN s ELSE SubSeq(s, Len(s) - n + 1, Len(s))

\* ------------------------------------------------------------ pricing
\* model_pricing, per token, in nano-dollars (USD per 1M tokens * 1000)
model_pricing(model) ==
    CASE model = "gpt-4o"        -> [input |-> 2500,  output |-> 10000]
      [] model = "gpt-4o-mini"   -> [input |-> 150,   output |-> 600]
      [] model = "gpt-4.1-nano"  -> [input |-> 100,   output |-> 400]
      [] model = "gpt-4-turbo"   -> [input |-> 10000, output |-> 30000]
      [] model = "gpt-3.5-turbo" -> [input |-> 500,   output |-> 1500]
      [] OTHER                   -> [input |-> 1,     output |-> 2]

calculate_cost(input_tokens, output_tokens, model) ==
    input_tokens * model_pricing(model).input
        + output_tokens * model_pricing(model).output

\* round(x, 6): to the nearest micro-dollar, ties to even
Round6(x) ==
    LET q == x \div 1000
        r == x % 1000
    IN  IF r < 500 THEN q * 1000
        ELSE IF r > 500 THEN (q + 1) * 1000
        ELSE IF q % 2 = 0 THEN q * 1000 ELSE (q + 1) * 1000

\* ------------------------------------------------------------- ledger
NewUsage ==
    [total_requests |-> 0, total_tokens |-> 0, total_cost_usd |-> 0,
     by_agent |-> EmptyDict, by_model |-> EmptyDict, monthly |-> EmptyDict,
     recent_requests |-> <<>>]

NewBucket == [requests |-> 0, tokens |-> 0, cost_usd |-> 0]

NewMonth ==
    [requests |-> 0, tokens |-> 0, cost_usd |-> 0,
     by_agent |-> EmptyDict, by_model |-> EmptyDict]

MaxRecent == 100

RequestData(ev, ts) ==
    LET it == ev.tokens[1]
        ot == ev.tokens[2]
    IN  [timestamp |-> ts, agent |-> ev.agent, model |-> ev.model,
         tokens |-> [input |-> it, output |-> ot, total |-> it + ot],
         cost_usd |-> Round6(calculate_cost(it, ot, ev.model))]

\* a bucket that is reset at every event instead of only when absent
BumpBucketAlwaysReset(buckets, key, total_tokens, cost) ==
    LET new == [requests |-> NewBucket.requests + 1,
                tokens   |-> NewBucket.tokens + total_tokens,
                cost_usd |-> Round6(NewBucket.cost_usd + cost)]
    IN  [k \in DOMAIN buckets \cup {key} |-> IF k = key THEN new ELSE buckets[k]]

\* if key not in buckets: buckets[key] = zeroes; then the three increments
BumpBucket(buckets, key, total_tokens, cost) ==
    LET old == IF key \in DOMAIN buckets THEN buckets[key] ELSE NewBucket
        new == [requests |-> old.requests + 1,
                tokens   |-> old.tokens + total_tokens,
                cost_usd |-> Round6(old.cost_usd + cost)]
    IN  [k \in DOMAIN buckets \cup {key} |-> IF k = key THEN new ELSE buckets[k]]

\* the month's own counters are updated, its by_agent sub-buckets are not
BumpMonthlyNoAgents(monthly, month, ev, total_tokens, cost) ==
    LET old == IF month \in DOMAIN monthly THEN monthly[month] ELSE NewMonth
        new == [requests |-> old.requests + 1,
                tokens   |-> old.tokens + total_tokens,
                cost_usd |-> Round6(old.cost_usd + cost),
                by_agent |-> old.by_agent,
                by_model |-> BumpBucket(old.by_model, ev.model, total_tokens, cost)]
    IN  [m \in DOMAIN monthly \cup {month} |-> IF m = month THEN new ELSE monthly[m]]

BumpMonthly(monthly, month, ev, total_tokens, cost) ==
    LET old == IF month \in DOMAIN monthly THEN monthly[month] ELSE NewMonth
        new == [requests |-> old.requests + 1,
                tokens   |-> old.tokens + total_tokens,
                cost_usd |-> Round6(old.cost_usd + cost),
                by_agent |-> BumpBucket(old.by_agent, ev.agent, total_tokens, cost),
                by_model |-> BumpBucket(old.by_model, ev.model, total_tokens, cost)]
    IN  [m \in DOMAIN monthly \cup {month} |-> IF m = month THEN new ELSE monthly[m]]

\* a truncation that keeps the oldest entries: [:100] for [-100:]
AppendRecentKeepOldest(recent, request_data) ==
    LET appended == Append(recent, request_data)
    IN  IF Len(appended) > MaxRecent THEN SubSeq(appended, 1, MaxRecent) ELSE appended

AppendRecent(recent, request_data) ==
    LET appended == Append(recent, request_data)
    IN  IF Len(appended) > MaxRecent THEN LastN(appended, MaxRecent) ELSE appended

\* the in-memory mutation of usage = user_data["ai_usage"]
MergeEvent(usage, ev, ts, month) ==
    LET total_tokens == ev.tokens[1] + ev.tokens[2]
        cost == calculate_cost(ev.tokens[1], ev.tokens[2], ev.model)
    IN  [total_requests  |-> usage.total_requests + 1,
         total_tokens    |-> usage.total_tokens + total_tokens,
         total_cost_usd  |-> Round6(usage.total_cost_usd + cost),
         by_agent        |-> BumpBucket(usage.by_agent, ev.agent, total_tokens, cost),
         by_model        |-> BumpBucket(usage.by_model, ev.model, total_tokens, cost),
         monthly         |-> BumpMonthly(usage.monthly, month, ev, total_tokens, cost),
         recent_requests |-> AppendRecent(usage.recent_requests, RequestData(ev, ts))]

\* user_data after lines 112-194: ai_usage initialised if absent, then mutated
MutateUserData(user_data, ev, ts, month) ==
    LET usage == IF "ai_usage" \in DOMAIN user_data
                 THEN user_data["ai_usage"] ELSE NewUsage
    IN  [k \in DOMAIN user_data \cup {"ai_usage"} |->
            IF k = "ai_usage" THEN MergeEvent(usage, ev, ts, month)
            ELSE user_data[k]]

\* ------------------------------------------------- the document store
NoDoc == [exists |-> FALSE, data |-> EmptyDict]

\* user_doc.to_dict() if user_doc.exists else {}
ToDict(doc) == IF doc.exists THEN doc.data ELSE EmptyDict

\* merge of a map of buckets: a key present on both sides is a map of three
\* scalars, each overwritten; keys of one side only are kept
MergeBuckets(old, new) ==
    [k \in DOMAIN old \cup DOMAIN new |-> IF k \in DOMAIN new THEN new[k] ELSE old[k]]

MergeMonth(old, new) ==
    [requests |-> new.requests, tokens |-> new.tokens, cost_usd |-> new.cost_usd,
     by_agent |-> MergeBuckets(old.by_agent, new.by_agent),
     by_model |-> MergeBuckets(old.by_model, new.by_model)]

MergeMonthly(old, new) ==
    [m \in DOMAIN old \cup DOMAIN new |->
        IF m \in DOMAIN new
        THEN (IF m \in DOMAIN old THEN MergeMonth(old[m], new[m]) ELSE new[m])
        ELSE old[m]]

\* the ai_usage map: scalars and the recent_requests array are overwritten,
\* nested maps are merged key by key
MergeUsage(old, new) ==
    [total_requests  |-> new.total_requests,
     total_tokens    |-> new.total_tokens,
     total_cost_usd  |-> new.total_cost_usd,
     by_agent        |-> MergeBuckets(old.by_agent, new.by_agent),
     by_model        |-> MergeBuckets(old.by_model, new.by_model),
     monthly         |-> MergeMonthly(old.monthly, new.monthly),
     recent_requests |-> new.recent_requests]

\* DocumentReference.set(data, merge=True)
SetMerge(doc, data) ==
    IF ~doc.exists THEN [exists |-> TRUE, data |-> data]
    ELSE [exists |-> TRUE,
          data |-> [k \in DOMAIN doc.data \cup DOMAIN data |->
                      IF k \notin DOMAIN data THEN doc.data[k]
                      ELSE IF k = "ai_usage" /\ k \in DOMAIN doc.data
                           THEN MergeUsage(doc.data[k], data[k])
                           ELSE data[k]]]

\* ---------------------------------------------------------- log_usage
IdleCall ==
    [pc |-> "idle", ev |-> CHOOSE e \in Events : TRUE, ts |-> 0, month |-> 0,
     user_data |-> EmptyDict]

InitLedger ==
    /\ store = NoDoc
    /\ callers = [c \in Callers |-> IdleCall]
    /\ clock = 1
    /\ current_month = 1
    /\ history = <<>>
    /\ started = 0
    /\ failures = 0

\* lines 79-109: the event is costed, the clock read, the document read
LogUsageRead(c, ev) ==
    /\ callers[c].pc = "idle"
    /\ callers' = [callers EXCEPT ![c] =
                      [pc |-> "read", ev |-> ev, ts |-> clock,
                       month |-> current_month, user_data |-> ToDict(store)]]
    /\ clock' = clock + 1
    /\ started' = started + 1
    /\ UNCHANGED <<store, current_month, history>>
    /\ UNCHANGED <<failures, batchVars, queryVars, endpointVars>>

\* lines 112-197: the snapshot is mutated in memory and written with merge=True
LogUsageWrite(c) ==
    /\ callers[c].pc = "read"
    /\ LET call == callers[c]
       IN  /\ store' = SetMerge(store,
                          MutateUserData(call.user_data, call.ev, call.ts, call.month))
           /\ history' = Append(history, RequestData(call.ev, call.ts))
    /\ callers' = [callers EXCEPT ![c] = IdleCall]
    /\ UNCHANGED <<clock, current_month, started>>
    /\ UNCHANGED <<failures, batchVars, queryVars, endpointVars>>

\* the exception is not caught: it leaves log_usage
log_usage_reraise(call) == [call EXCEPT !.pc = "raised"]

\* lines 201-203, except Exception: the error is printed and log_usage
\* returns None
log_usage_except(call) == IdleCall

\* lines 79-109 raise (token counting, cost, or the document read by
\* user_ref.get()): nothing was written
LogUsageReadFails(c, ev) ==
    /\ callers[c].pc = "idle"
    /\ callers' = [callers EXCEPT ![c] =
                      log_usage_except([pc |-> "idle", ev |-> ev, ts |-> clock,
                                        month |-> current_month,
                                        user_data |-> EmptyDict])]
    /\ clock' = clock + 1
    /\ started' = started + 1
    /\ failures' = failures + 1
    /\ UNCHANGED <<store, current_month, history>>
    /\ UNCHANGED <<batchVars, queryVars, endpointVars>>

\* line 197: user_ref.set(user_data, merge=True) raises, the store did not
\* apply the write
LogUsageWriteFails(c) ==
    /\ callers[c].pc = "read"
    /\ callers' = [callers EXCEPT ![c] = log_usage_except(callers[c])]
    /\ failures' = failures + 1
    /\ UNCHANGED <<store, clock, current_month, history, started>>
    /\ UNCHANGED <<batchVars, queryVars, endpointVars>>

\* the calendar month changes
AdvanceMonth ==
    /\ current_month < MaxMonth
    /\ current_month' = current_month + 1
    /\ UNCHANGED <<store, callers, clock, history, started>>
    /\ UNCHANGED <<failures, batchVars, queryVars, endpointVars>>

NoCallInFlight == \A c \in Callers : callers[c].pc = "idle"

\* PATCH /me: the UserUpdate fields that are not None, as update_dict
Budgets == {10, 20}
Currencies == {"EUR"}
UserUpdates ==
    {("budget" :> b) : b \in Budgets}
      \cup {("preferred_currency" :> c) : c \in Currencies}
      \cup {("budget" :> b) @@ ("preferred_currency" :> c) :
                b \in Budgets, c \in Currencies}

\* update_user_data: an empty update_dict is refused with status 400, any
\* other is written by user_ref.set(update_dict, merge=True)
UpdateUserData(update_dict) ==
    /\ DOMAIN update_dict # {}
    /\ store' = SetMerge(store, update_dict)
    /\ UNCHANGED <<callers, clock, current_month, history, started>>
    /\ UNCHANGED <<failures, batchVars, queryVars, endpointVars>>

\* ------------------------------------------------- text and fragments
\* A text is a sequence of tokens: "x" is any run of characters holding no
\* comma, no blank and no "and"; "and" is the word; "," and " " are themselves.
BatchTexts ==
    { <<>>,
      <<",">>,
      <<"x">>,
      <<"x", ",", " ", "x">>,
      <<"x", " ", "and", " ", "x", ",", "x">> }

Fragment == <<"x">>

\* every text of at most MaxTextLen tokens
TextTokens == {"x", ",", " ", "and"}
SplitTexts == UNION {[1..n -> TextTokens] : n \in 0..MaxTextLen}

RECURSIVE ReplaceAnd(_)
\* text.replace(' and ', ', '): leftmost matches, not overlapping
ReplaceAnd(s) ==
    IF s = <<>> THEN <<>>
    ELSE IF Len(s) >= 3 /\ s[1] = " " /\ s[2] = "and" /\ s[3] = " "
         THEN <<",", " ">> \o ReplaceAnd(SubSeq(s, 4, Len(s)))
         ELSE <<s[1]>> \o ReplaceAnd(Tail(s))

RECURSIVE SplitComma(_)
\* str.split(','): always at least one part, parts may be empty
SplitComma(s) ==
    IF \A i \in 1..Len(s) : s[i] # "," THEN <<s>>
    ELSE LET i == CHOOSE j \in 1..Len(s) :
                     s[j] = "," /\ \A k \in 1..(j - 1) : s[k] # ","
         IN  <<SubSeq(s, 1, i - 1)>> \o SplitComma(SubSeq(s, i + 1, Len(s)))

RECURSIVE LStrip(_)
LStrip(s) == IF s # <<>> /\ Head(s) = " " THEN LStrip(Tail(s)) ELSE s

RECURSIVE RStrip(_)
RStrip(s) ==
    IF s # <<>> /\ s[Len(s)] = " " THEN RStrip(SubSeq(s, 1, Len(s) - 1)) ELSE s

\* str.strip()
Strip(s) == RStrip(LStrip(s))

RECURSIVE StripNonEmpty(_)
\* [part.strip() for part in parts if part.strip()]
StripNonEmpty(parts) ==
    IF parts = <<>> THEN <<>>
    ELSE IF Strip(Head(parts)) # <<>>
         THEN <<Strip(Head(parts))>> \o StripNonEmpty(Tail(parts))
         ELSE StripNonEmpty(Tail(parts))

\* the except branch of split_multi_expense_text
FallbackSplit(t) == StripNonEmpty(SplitComma(ReplaceAnd(t)))

\* result.individual_expenses: whatever list the model answered with
DelegatedSplits == {[i \in 1..n |-> Fragment] : n \in 0..MaxFragments}

\* answers long enough to fill the pool
PoolSplits == {[i \in 1..n |-> Fragment] : n \in 2..MaxPoolFragments}

\* ------------------------------------------------------ parse_expense
\* what the chain prompt | model | parser produced for one fragment: an
\* exception anywhere in the try block, or a record with this amount
LLMOutputs ==
    {[kind |-> "error", amount |-> 0]}
        \cup {[kind |-> "parsed", amount |-> a] : a \in {-5, 0, 12}}

\* one failing and one succeeding delegation
PoolOutputs ==
    {[kind |-> "error", amount |-> 0], [kind |-> "parsed", amount |-> 12]}

\* ExpenseData's validator: amount_must_be_positive raises only for v < 0
ExpenseDataValid(d) == d.amount >= 0

\* parse_expense: the parsed record plus raw_text, or the fallback dict
parse_expense(fragment, llm) ==
    IF llm.kind = "parsed" /\ ExpenseDataValid(llm)
    THEN [amount |-> llm.amount, currency |-> "EUR", short_text |-> "item",
          raw_text |-> fragment]
    ELSE [amount |-> 0, currency |-> "EUR", short_text |-> "generic purchase",
          raw_text |-> fragment]

\* ExpenseData(**result_dict): the model's fields only
ExpenseData(d) ==
    [amount |-> d.amount, currency |-> d.currency, short_text |-> d.short_text]

\* bool(result_dict): a dict is true when it has a key
Truthy(d) == DOMAIN d # {}

\* ------------------------------------------- parse_multiple_expenses
PoolWidth == 5

NoResult ==
    [expenses |-> <<>>, total_count |-> 0, original_text |-> <<>>, error |-> <<>>]

NoDict == [amount |-> 0, currency |-> "", short_text |-> "", raw_text |-> <<>>]

\* one piece of an error string
Piece(kind, fragment) == [kind |-> kind, fragment |-> fragment]

RECURSIVE JoinErrors(_)
\* "; ".join(errors) if errors else ""
JoinErrors(es) ==
    IF es = <<>> THEN <<>>
    ELSE IF Len(es) = 1 THEN <<es[1]>>
    ELSE <<es[1], Piece("; ", <<>>)>> \o JoinErrors(Tail(es))

\* isinstance(exc, asyncio.TimeoutError). concurrent.futures.TimeoutError is
\* the same class as asyncio.TimeoutError on interpreters that alias both to
\* the builtin TimeoutError (aliased), and a different class on the others.
IsAsyncioTimeout(exc, aliased) == exc = "FuturesTimeoutError" /\ aliased

\* only the first except clause: any other exception leaves the function
HandleOnlyTimeout(exc, aliased, t) ==
    IF IsAsyncioTimeout(exc, aliased)
    THEN [caught |-> TRUE,
          result |-> [expenses |-> <<>>, total_count |-> 0, original_text |-> t,
                      error |-> <<Piece("Timeout while processing expenses", <<>>)>>]]
    ELSE [caught |-> FALSE, result |-> NoResult]

\* the two except clauses of parse_multiple_expenses
HandleException(exc, aliased, t) ==
    IF IsAsyncioTimeout(exc, aliased)
    THEN [caught |-> TRUE,
          result |-> [expenses |-> <<>>, total_count |-> 0, original_text |-> t,
                      error |-> <<Piece("Timeout while processing expenses", <<>>)>>]]
    ELSE [caught |-> TRUE,
          result |-> [expenses |-> <<>>, total_count |-> 0, original_text |-> t,
                      error |-> <<Piece("Error: ", <<>>), Piece(exc, <<>>)>>]]

\* an exception raised inside the try block of parse_multiple_expenses
RaiseInTry(exc, aliased) ==
    LET h == HandleException(exc, aliased, text)
    IN  IF h.caught
        THEN opc' = "returned" /\ result' = h.result
        ELSE opc' = "raised" /\ result' = result

NoAnswer == [kind |-> "none", fragments |-> <<>>]

\* the usage event the splitter reports
SplitterEvent ==
    [agent |-> "multi_expense_parser_splitter", model |-> "gpt-4.1-nano",
     tokens |-> <<2, 1>>]

\* split_multi_expense_text and parse_multiple_expenses are coroutines: an
\* event loop is running in the thread that executes them
InRunningLoop == TRUE

\* track_openai_api_call: asyncio.run(log()) raises RuntimeError when called
\* from a thread whose event loop is running, before log() starts; otherwise
\* it runs log_usage to completion
track_openai_api_call(doc, hist, running_loop, ev, ts, month) ==
    IF running_loop
    THEN [raised |-> TRUE, store |-> doc, history |-> hist]
    ELSE [raised |-> FALSE,
          store |-> SetMerge(doc, MutateUserData(ToDict(doc), ev, ts, month)),
          history |-> Append(hist, RequestData(ev, ts))]

\* split_multi_expense_text: the key check of lines 36-39 stands before the
\* try block; inside it the tracking call has its own try/except (93-106)
split_multi_expense_text(api_key, chain_ok, track_raised, frags, t) ==
    IF ~api_key
    THEN [via |-> "raised", exc |-> "ValueError", fragments |-> <<>>]
    ELSE IF chain_ok
         THEN [via |-> "delegated", exc |-> "", fragments |-> frags]
         ELSE [via |-> "fallback", exc |-> "", fragments |-> FallbackSplit(t)]

\* the pool is used whatever the number of fragments
NeverSingle(fragments) == FALSE

\* line 129: if len(expense_texts) == 1
IsSingle(fragments) == Len(fragments) = 1

\* the ghost map with fragment i's parse result added
Recorded(map, i, result_dict) ==
    [k \in DOMAIN map \cup {i} |-> IF k = i THEN result_dict ELSE map[k]]

InitBatch ==
    /\ opc = "idle"
    /\ text = <<>>
    /\ expense_texts = <<>>
    /\ units = <<>>
    /\ expenses = <<>>
    /\ errors = <<>>
    /\ deadline = FALSE
    /\ timedOut = FALSE
    /\ atDeadline = [ok |-> {}, unfinished |-> {}]
    /\ parsed = EmptyDict
    /\ via = "none"
    /\ result = NoResult
    /\ answer = NoAnswer
    /\ calls = 0
    /\ pool = FALSE

\* the endpoint awaits parse_multiple_expenses(text, user_id, db)
Call(t) ==
    /\ opc = "idle"
    /\ opc' = "split"
    /\ text' = t
    /\ UNCHANGED <<expense_texts, units, expenses, errors, deadline, timedOut,
                   atDeadline, parsed, result, via>>
    /\ UNCHANGED <<answer, calls, pool>>
    /\ UNCHANGED <<ledgerVars, queryVars, endpointVars>>

\* split_multi_expense_text, lines 36-39: no OPENAI_API_KEY, ValueError
SplitMissingKey ==
    /\ opc = "split"
    /\ LET out == split_multi_expense_text(FALSE, FALSE, FALSE, <<>>, text)
       IN  /\ via' = out.via
           /\ \E aliased \in BOOLEAN : RaiseInTry(out.exc, aliased)
    /\ answer' = [kind |-> "nokey", fragments |-> <<>>]
    /\ UNCHANGED <<text, expense_texts, units, expenses, errors, deadline,
                   timedOut, atDeadline, parsed, calls, pool>>
    /\ UNCHANGED <<ledgerVars, queryVars, endpointVars>>

\* split_multi_expense_text, lines 87-108: the delegation answered with
\* frags, the usage event is handed to track_openai_api_call
SplitDelegated(frags) ==
    /\ opc = "split"
    /\ LET tr  == track_openai_api_call(store, history, InRunningLoop,
                                        SplitterEvent, clock, current_month)
           out == split_multi_expense_text(TRUE, TRUE, tr.raised, frags, text)
       IN  /\ store' = tr.store
           /\ history' = tr.history
           /\ expense_texts' = out.fragments
           /\ via' = out.via
    /\ answer' = [kind |-> "answered", fragments |-> frags]
    /\ opc' = "dispatch"
    /\ UNCHANGED <<text, units, expenses, errors, deadline, timedOut,
                   atDeadline, parsed, result, calls, pool>>
    /\ UNCHANGED <<callers, clock, current_month, started, failures>>
    /\ UNCHANGED <<queryVars, endpointVars>>

\* split_multi_expense_text, lines 109-113: the delegation failed
SplitFallback ==
    /\ opc = "split"
    /\ LET out == split_multi_expense_text(TRUE, FALSE, FALSE, <<>>, text)
       IN  /\ expense_texts' = out.fragments
           /\ via' = out.via
    /\ answer' = [kind |-> "failed", fragments |-> <<>>]
    /\ opc' = "dispatch"
    /\ UNCHANGED <<text, units, expenses, errors, deadline, timedOut,
                   atDeadline, parsed, result, calls, pool>>
    /\ UNCHANGED <<ledgerVars, queryVars, endpointVars>>

\* lines 129-149: exactly one fragment, parsed in the caller's own thread
ParseSingle(llm) ==
    /\ opc = "dispatch"
    /\ IsSingle(expense_texts)
    /\ LET result_dict == parse_expense(expense_texts[1], llm)
       IN  /\ parsed' = Recorded(parsed, 1, result_dict)
           /\ IF Truthy(result_dict)
              THEN IF ExpenseDataValid(result_dict)
                   THEN /\ opc' = "returned"
                        /\ result' = [expenses |-> <<ExpenseData(result_dict)>>,
                                      total_count |-> 1,
                                      original_text |-> text,
                                      error |-> <<>>]
                   ELSE \E aliased \in BOOLEAN : RaiseInTry("ValidationError", aliased)
              ELSE /\ opc' = "returned"
                   /\ result' = [expenses |-> <<>>, total_count |-> 0,
                                 original_text |-> text,
                                 error |-> <<Piece("Failed to parse single expense", <<>>)>>]
    /\ UNCHANGED <<text, expense_texts, units, expenses, errors, deadline,
                   timedOut, atDeadline, via>>
    /\ calls' = calls + 1
    /\ UNCHANGED <<answer, pool>>
    /\ UNCHANGED <<ledgerVars, queryVars, endpointVars>>

\* lines 152-160: every fragment is submitted to the pool
SubmitAll ==
    /\ opc = "dispatch"
    /\ ~IsSingle(expense_texts)
    /\ units' = [i \in 1..Len(expense_texts) |->
                    [text |-> expense_texts[i], status |-> "queued",
                     result |-> NoDict, yielded |-> FALSE]]
    /\ expenses' = <<>>
    /\ errors' = <<>>
    /\ opc' = "collect"
    /\ UNCHANGED <<text, expense_texts, deadline, timedOut, atDeadline, parsed, result, via>>
    /\ pool' = TRUE
    /\ UNCHANGED <<answer, calls>>
    /\ UNCHANGED <<ledgerVars, queryVars, endpointVars>>

Running == {i \in 1..Len(units) : units[i].status \in {"running", "hung"}}

\* the pool starts a thread for every work item
PoolUnbounded == TRUE

\* ThreadPoolExecutor(max_workers=5): a work item is taken only by one of
\* at most PoolWidth threads, each running one item at a time
PoolHasIdleThread == Cardinality(Running) < PoolWidth

\* a pool thread takes the oldest queued work item
WorkerStart(i) ==
    /\ opc \in {"collect", "shutdown"}
    /\ i \in 1..Len(units)
    /\ units[i].status = "queued"
    /\ \A j \in 1..(i - 1) : units[j].status # "queued"
    /\ PoolHasIdleThread
    /\ units' = [units EXCEPT ![i].status = "running"]
    /\ UNCHANGED <<opc, text, expense_texts, expenses, errors, deadline, timedOut,
                   atDeadline, parsed, result, via>>
    /\ calls' = calls + 1
    /\ UNCHANGED <<answer, pool>>
    /\ UNCHANGED <<ledgerVars, queryVars, endpointVars>>

\* parse_expense returns in its pool thread
WorkerFinish(i, llm) ==
    /\ opc \in {"collect", "shutdown"}
    /\ i \in 1..Len(units)
    /\ units[i].status = "running"
    /\ LET result_dict == parse_expense(units[i].text, llm)
       IN  /\ units' = [units EXCEPT ![i].status = "done", ![i].result = result_dict]
           /\ parsed' = Recorded(parsed, i, result_dict)
    /\ UNCHANGED <<opc, text, expense_texts, expenses, errors, deadline, timedOut,
                   atDeadline, result, via>>
    /\ UNCHANGED <<answer, calls, pool>>
    /\ UNCHANGED <<ledgerVars, queryVars, endpointVars>>

\* the delegation of this fragment never answers
WorkerHang(i) ==
    /\ opc \in {"collect", "shutdown"}
    /\ i \in 1..Len(units)
    /\ units[i].status = "running"
    /\ units' = [units EXCEPT ![i].status = "hung"]
    /\ UNCHANGED <<opc, text, expense_texts, expenses, errors, deadline, timedOut,
                   atDeadline, parsed, result, via>>
    /\ UNCHANGED <<answer, calls, pool>>
    /\ UNCHANGED <<ledgerVars, queryVars, endpointVars>>

\* lines 163-177: as_completed yields a finished future, the loop body runs
Collect(i) ==
    /\ opc = "collect"
    /\ i \in 1..Len(units)
    /\ units[i].status = "done"
    /\ ~units[i].yielded
    /\ units' = [units EXCEPT ![i].yielded = TRUE]
    /\ LET result_dict == units[i].result
       IN  IF Truthy(result_dict) /\ result_dict.amount > 0
           THEN IF ExpenseDataValid(result_dict)
                THEN /\ expenses' = Append(expenses, ExpenseData(result_dict))
                     /\ errors' = errors
                ELSE /\ expenses' = expenses
                     /\ errors' = Append(errors, Piece("Error parsing", units[i].text))
           ELSE /\ expenses' = expenses
                /\ errors' = Append(errors, Piece("Failed to parse: ", units[i].text))
    /\ UNCHANGED <<opc, text, expense_texts, deadline, timedOut, atDeadline,
                   parsed, result, via>>
    /\ UNCHANGED <<answer, calls, pool>>
    /\ UNCHANGED <<ledgerVars, queryVars, endpointVars>>

\* lines 179-185: every future was yielded; the pool is left, the batch returned
ReturnBatch ==
    /\ opc = "collect"
    /\ \A i \in 1..Len(units) : units[i].yielded
    /\ result' = [expenses |-> expenses, total_count |-> Len(expenses),
                  original_text |-> text, error |-> JoinErrors(errors)]
    /\ opc' = "returned"
    /\ UNCHANGED <<text, expense_texts, units, expenses, errors, deadline,
                   timedOut, atDeadline, parsed, via>>
    /\ UNCHANGED <<answer, calls, pool>>
    /\ UNCHANGED <<ledgerVars, queryVars, endpointVars>>

\* 30 seconds have passed since as_completed was called
DeadlineElapses ==
    /\ opc = "collect"
    /\ ~deadline
    /\ deadline' = TRUE
    /\ atDeadline' =
          [ok |-> {i \in 1..Len(units) :
                      units[i].status = "done" /\ units[i].result.amount > 0},
           unfinished |-> {i \in 1..Len(units) : units[i].status # "done"}]
    /\ UNCHANGED <<opc, text, expense_texts, units, expenses, errors, timedOut,
                   parsed, result, via>>
    /\ UNCHANGED <<answer, calls, pool>>
    /\ UNCHANGED <<ledgerVars, queryVars, endpointVars>>

\* as_completed: past the deadline with futures still pending, TimeoutError
RaiseTimeout ==
    /\ opc = "collect"
    /\ deadline
    /\ \E i \in 1..Len(units) : ~units[i].yielded
    /\ timedOut' = TRUE
    /\ opc' = "shutdown"
    /\ UNCHANGED <<text, expense_texts, units, expenses, errors, deadline,
                   atDeadline, parsed, result, via>>
    /\ UNCHANGED <<answer, calls, pool>>
    /\ UNCHANGED <<ledgerVars, queryVars, endpointVars>>

\* the with block is left by the exception: ThreadPoolExecutor.__exit__ is
\* shutdown(wait=True), which joins every pool thread; then the except clauses
ShutdownReturn(aliased) ==
    /\ opc = "shutdown"
    /\ \A i \in 1..Len(units) : units[i].status = "done"
    /\ RaiseInTry("FuturesTimeoutError", aliased)
    /\ UNCHANGED <<text, expense_texts, units, expenses, errors, deadline,
                   timedOut, atDeadline, parsed, via>>
    /\ UNCHANGED <<answer, calls, pool>>
    /\ UNCHANGED <<ledgerVars, queryVars, endpointVars>>

\* ------------------------------------------------------ track_ai_usage
\* what the decorated function does when its body runs: it raises, returns
\* a plain value, or returns an awaitable
Bodies == {"raises", "value", "awaitable"}

NoTracked ==
    [pc |-> "idle", ev |-> CHOOSE e \in Events : TRUE, identified |-> FALSE,
     body |-> "value", body_runs |-> 0, logged |-> <<>>, exc |-> "",
     returned |-> "", calls |-> 0]

\* what the undecorated function hands to its caller when it returns
BodyResult(body) == IF body = "awaitable" THEN "awaitable" ELSE "value"

\* await x: the result of an awaitable, TypeError for any other object
Await(x) ==
    IF x = "awaitable" THEN [raised |-> FALSE, exc |-> "", value |-> "awaited"]
    ELSE [raised |-> TRUE, exc |-> "TypeError", value |-> ""]

\* the event of the failure branch: output_text is ""
FailureEvent(ev) == [ev EXCEPT !.tokens = <<ev.tokens[1], 0>>]

\* lines 296-302, sync_wrapper: asyncio.run(async_wrapper(*args, **kwargs))
\* raises RuntimeError in a thread whose event loop is running, before the
\* coroutine starts; otherwise async_wrapper is run to completion
CallDecorated(ev, identified, body, running_loop) ==
    /\ tracked.pc \in {"idle", "returned", "raised"}
    /\ tracked.calls < MaxTrackedCalls
    /\ tracked' = [pc |-> IF running_loop THEN "raised" ELSE "entered",
                   ev |-> ev, identified |-> identified, body |-> body,
                   body_runs |-> 0, logged |-> <<>>,
                   exc |-> IF running_loop THEN "RuntimeError" ELSE "",
                   returned |-> "", calls |-> tracked.calls + 1]
    /\ UNCHANGED <<query_text, expense_type, save_to_db, saved, epc>>
    /\ UNCHANGED <<ledgerVars, batchVars, queryVars>>

\* lines 241-245 and 252: `await func(*args, **kwargs)`, inside the try
\* block when user_id and db_client were found, outside any try otherwise.
\* func is the synchronous function: the call runs its body, the await is
\* applied to what it returned.
AwaitFunc ==
    /\ tracked.pc = "entered"
    /\ LET a == IF tracked.body = "raises"
                THEN [raised |-> TRUE, exc |-> "BodyError", value |-> ""]
                ELSE Await(BodyResult(tracked.body))
       IN  tracked' = [tracked EXCEPT
                         !.body_runs = @ + 1,
                         !.exc = a.exc,
                         !.returned = IF tracked.identified THEN "" ELSE a.value,
                         !.pc = IF tracked.identified
                                THEN (IF a.raised THEN "except" ELSE "log")
                                ELSE (IF a.raised THEN "raised" ELSE "returned")]
    /\ UNCHANGED <<query_text, expense_type, save_to_db, saved, epc>>
    /\ UNCHANGED <<ledgerVars, batchVars, queryVars>>

\* lines 255-277: log_usage with metadata success=True, then return result
LogSuccess ==
    /\ tracked.pc = "log"
    /\ store' = SetMerge(store,
                  MutateUserData(ToDict(store), tracked.ev, clock, current_month))
    /\ history' = Append(history, RequestData(tracked.ev, clock))
    /\ clock' = clock + 1
    /\ started' = started + 1
    /\ tracked' = [tracked EXCEPT !.logged = Append(@, TRUE),
                                  !.returned = "awaited",
                                  !.pc = "returned"]
    /\ UNCHANGED <<callers, current_month, failures>>
    /\ UNCHANGED <<query_text, expense_type, save_to_db, saved, epc>>
    /\ UNCHANGED <<batchVars, queryVars>>

\* lines 279-294, except Exception: log_usage with metadata success=False
\* and an empty output text, then the exception is raised again
LogFailure ==
    /\ tracked.pc = "except"
    /\ LET ev == FailureEvent(tracked.ev)
       IN  /\ store' = SetMerge(store,
                          MutateUserData(ToDict(store), ev, clock, current_month))
           /\ history' = Append(history, RequestData(ev, clock))
    /\ clock' = clock + 1
    /\ started' = started + 1
    /\ tracked' = [tracked EXCEPT !.logged = Append(@, FALSE), !.pc = "raised"]
    /\ UNCHANGED <<callers, current_month, failures>>
    /\ UNCHANGED <<query_text, expense_type, save_to_db, saved, epc>>
    /\ UNCHANGED <<batchVars, queryVars>>

\* ------------------------------------------- the multi-expense endpoint
InitEndpoint ==
    /\ query_text = <<>>
    /\ expense_type = "none"
    /\ save_to_db = FALSE
    /\ saved = <<>>
    /\ epc = "idle"
    /\ tracked = NoTracked

\* The characters a query text is written with here: a currency symbol, a
\* digit, the decimal point, a blank and the letters of "yen" in both cases.
MoneyChars == {"$", "1", ".", " ", "y", "e", "n", "Y"}

\* every query text of at most MaxChars characters
MoneyTexts == UNION {[1..n -> MoneyChars] : n \in 0..MaxChars}

\* (?:€|£|\$|¥)
IsCurrencySymbol(ch) == ch \in {"€", "£", "$", "¥"}

\* \d
IsDigit(ch) == ch \in {"0", "1", "2", "3", "4", "5", "6", "7", "8", "9"}

\* \s
IsSpace(ch) == ch \in {" ", "\t", "\n"}

\* re.IGNORECASE on the letters of the alphabet
Lower(ch) == IF ch = "Y" THEN "y" ELSE IF ch = "E" THEN "e"
             ELSE IF ch = "N" THEN "n" ELSE ch

\* euros?|dollars?|pounds?|yen|gbp|usd|eur|jpy in the order the alternation
\* tries them, the optional s first
CurrencyWords ==
    << <<"e","u","r","o","s">>, <<"e","u","r","o">>,
       <<"d","o","l","l","a","r","s">>, <<"d","o","l","l","a","r">>,
       <<"p","o","u","n","d","s">>, <<"p","o","u","n","d">>,
       <<"y","e","n">>, <<"g","b","p">>, <<"u","s","d">>,
       <<"e","u","r">>, <<"j","p","y">> >>

\* the word w stands in t at position i, whatever the case
WordAt(t, i, w) ==
    /\ i + Len(w) - 1 <= Len(t)
    /\ \A k \in 1..Len(w) : Lower(t[i + k - 1]) = w[k]

\* the position after the longest run of digits (of blanks) starting at i
RECURSIVE DigitsEnd(_, _)
DigitsEnd(t, i) ==
    IF i <= Len(t) /\ IsDigit(t[i]) THEN DigitsEnd(t, i + 1) ELSE i

RECURSIVE SpacesEnd(_, _)
SpacesEnd(t, i) ==
    IF i <= Len(t) /\ IsSpace(t[i]) THEN SpacesEnd(t, i + 1) ELSE i

NoMatch == [found |-> FALSE, end |-> 0, symbol |-> FALSE, code |-> FALSE]

\* money_regex tried at position i: an optional symbol, \d+, an optional
\* fraction of exactly two digits, an optional currency word after blanks.
\* Everything after \d+ is optional, so the greedy choices are never undone.
MatchAt(t, i) ==
    LET symbol == /\ IsCurrencySymbol(t[i])
                  /\ i + 1 <= Len(t) /\ IsDigit(t[i + 1])
        first  == IF symbol THEN i + 1 ELSE i
        digits == DigitsEnd(t, first)
        fraction == /\ digits + 2 <= Len(t)
                    /\ t[digits] = "."
                    /\ IsDigit(t[digits + 1]) /\ IsDigit(t[digits + 2])
        number == IF fraction THEN digits + 3 ELSE digits
        word   == SpacesEnd(t, number)
        codes  == {k \in 1..Len(CurrencyWords) : WordAt(t, word, CurrencyWords[k])}
        k1     == CHOOSE k \in codes : \A j \in codes : k <= j
    IN  IF ~IsDigit(t[first]) THEN NoMatch
        ELSE [found |-> TRUE,
              end |-> IF codes = {} THEN number
                      ELSE word + Len(CurrencyWords[k1]),
              symbol |-> symbol, code |-> codes # {}]

\* re.findall(money_regex, text, re.IGNORECASE): the matches from left to
\* right, each search starting where the match before ended
RECURSIVE findall(_, _)
findall(t, i) ==
    IF i > Len(t) THEN <<>>
    ELSE LET m == MatchAt(t, i)
         IN  IF m.found THEN <<m>> \o findall(t, m.end)
             ELSE findall(t, i + 1)

\* detect_expense_count, lines 214-217
detect_expense_count(t) ==
    LET matches == findall(t, 1)
    IN  IF Len(matches) <= 1 THEN "single" ELSE "multiple"

\* line 261 of the endpoint: expense_type = detect_expense_count(query.text)
DetectExpenseCount ==
    /\ expense_type = "none"
    /\ expense_type' = detect_expense_count(query_text)
    /\ UNCHANGED <<query_text, save_to_db, saved, epc, tracked>>
    /\ UNCHANGED <<ledgerVars, batchVars, queryVars>>

\* lines 273-278: expense.dict() updated with the request's fields (the
\* user id and the timestamp are the same for every document of a request)
expense_dict(expense, raw_text) ==
    [amount |-> expense.amount, currency |-> expense.currency,
     short_text |-> expense.short_text, raw_text |-> raw_text]

\* lines 266-298: parse_multiple_expenses has returned; with save_to_db and a
\* non-empty result every expense of the result is added to the collection
SaveToDb ==
    /\ epc = "idle"
    /\ opc = "returned"
    /\ saved' = IF save_to_db /\ result.expenses # <<>>
                THEN saved \o [i \in 1..Len(result.expenses) |->
                                 expense_dict(result.expenses[i], text)]
                ELSE saved
    /\ epc' = "responded"
    /\ UNCHANGED <<query_text, expense_type, save_to_db, tracked>>
    /\ UNCHANGED <<ledgerVars, batchVars, queryVars>>

\* line 281: db.collection('expenses').add raises after n documents were
\* added; the except clause of the endpoint answers with status 500
SaveFails(n) ==
    /\ epc = "idle"
    /\ opc = "returned"
    /\ save_to_db /\ result.expenses # <<>>
    /\ n < Len(result.expenses)
    /\ saved' = saved \o [i \in 1..n |-> expense_dict(result.expenses[i], text)]
    /\ epc' = "raised"
    /\ UNCHANGED <<query_text, expense_type, save_to_db, tracked>>
    /\ UNCHANGED <<ledgerVars, batchVars, queryVars>>

\* ------------------------------------------------------ usage queries
\* get_usage_alerts' thresholds; costs of this section are in micro-dollars,
\* the unit log_usage rounds every stored cost to
CostWarning == 10000000
CostCritical == 25000000
RequestsWarning == 1000
RequestsCritical == 2500
TokensPerRequestInfo == 2000

\* the highest price of model_pricing, in micro-dollars per token
MaxTokenPrice == 30

NoReply == [kind |-> "none", exc |-> "", month |-> 0, alerts |-> <<>>]

\* a month's bucket of the ledger, of r requests with an average of a tokens
MonthBucket(r, a, cost) == [requests |-> r, tokens |-> r * a, cost_usd |-> cost]

\* the fields of ai_usage that get_usage_alerts reads, for a ledger with
\* bucket prior for month 1 and bucket cur for month 2; a bucket of no
\* requests is a month the ledger has no key for
UsageView(prior, cur) ==
    [total_requests |-> prior.requests + cur.requests,
     total_tokens   |-> prior.tokens + cur.tokens,
     monthly        |-> [m \in {k \in 1..2 :
                                  IF k = 1 THEN prior.requests > 0
                                  ELSE cur.requests > 0} |->
                           IF m = 1 THEN prior ELSE cur]]

\* monthly buckets on and next to every threshold, of a cost their tokens
\* can have
BucketInputs ==
    {MonthBucket(0, 0, 0)} \cup
    {b \in {MonthBucket(r, a, cost) :
               r \in {1, RequestsWarning, RequestsWarning + 1,
                      RequestsCritical, RequestsCritical + 1},
               a \in {1, TokensPerRequestInfo, TokensPerRequestInfo + 1},
               cost \in {0, CostWarning, CostWarning + 1,
                         CostCritical, CostCritical + 1}} :
        b.cost_usd <= MaxTokenPrice * b.tokens}

\* earlier usage: none, light, or one request of very many tokens
PriorInputs ==
    {MonthBucket(0, 0, 0), MonthBucket(RequestsCritical, 1, 0),
     MonthBucket(1, RequestsCritical * TokensPerRequestInfo * 2, CostWarning)}

\* the user documents a query may find: none, one without a ledger, one
\* with a ledger
QueryDocs ==
    {NoDoc, [exists |-> TRUE, data |-> EmptyDict]} \cup
    {[exists |-> TRUE, data |-> [k \in {"ai_usage"} |-> UsageView(p[1], p[2])]] :
        p \in {q \in PriorInputs \X BucketInputs :
                  q[1].requests + q[2].requests > 0}}

HTTPException(status_code) == [type |-> "HTTPException", status_code |-> status_code]

\* what user_ref.get() raises when the store cannot be read
StoreError == [type |-> "StoreError", status_code |-> 0]

NoException == [type |-> "", status_code |-> 0]

\* lines 14-35, the try block of get_user_usage: the ledger, a zeroed ledger
\* when the document has none, HTTPException(404) when the document does
\* not exist
user_usage_try(doc, read_fails) ==
    IF read_fails
    THEN [raised |-> TRUE, exc |-> StoreError, usage |-> NewUsage]
    ELSE IF ~doc.exists
    THEN [raised |-> TRUE, exc |-> HTTPException(404), usage |-> NewUsage]
    ELSE IF "ai_usage" \notin DOMAIN doc.data
         THEN [raised |-> FALSE, exc |-> NoException, usage |-> NewUsage]
         ELSE [raised |-> FALSE, exc |-> NoException, usage |-> doc.data["ai_usage"]]

\* lines 37-38, except Exception: HTTPException is an Exception, so the
\* clause catches what the try block raised itself as well
user_usage_except(r) ==
    IF r.raised THEN [r EXCEPT !.exc = HTTPException(500)] ELSE r

\* get_user_usage with the store readable
get_user_usage(doc) ==
    LET r == user_usage_except(user_usage_try(doc, FALSE))
    IN  [raised |-> r.raised, usage |-> r.usage]

\* get_user_usage(user_id) called on its own
GetUserUsage(read_fails) ==
    /\ qpc = "idle"
    /\ LET t == user_usage_try(qdoc, read_fails)
           r == user_usage_except(t)
       IN  qres' = [kind |-> IF r.raised THEN "raised" ELSE "returned",
                    exc |-> r.exc.type, query |-> "user_usage",
                    value |-> r.usage, status |-> r.exc.status_code,
                    cause |-> t.exc.type]
    /\ qpc' = "done"
    /\ UNCHANGED <<qdoc, qarg, today>>
    /\ UNCHANGED <<ledgerVars, batchVars, endpointVars>>

\* one alert dict
Alert(type, severity, value, threshold) ==
    [type |-> type, severity |-> severity, value |-> value,
     threshold |-> threshold]

\* get_usage_alerts, run in month `month`
get_usage_alerts(doc, month) ==
    LET u == get_user_usage(doc)
        usage_data == u.usage
        monthly_data ==
            IF month \in DOMAIN usage_data.monthly
            THEN usage_data.monthly[month] ELSE MonthBucket(0, 0, 0)
        monthly_cost == monthly_data.cost_usd
        monthly_requests == monthly_data.requests
        total_requests == usage_data.total_requests
        total_tokens == usage_data.total_tokens
        cost_alerts ==
            IF monthly_cost > CostWarning
            THEN <<Alert("high_monthly_cost",
                         IF monthly_cost < CostCritical
                         THEN "warning" ELSE "critical",
                         monthly_cost, CostWarning)>>
            ELSE <<>>
        request_alerts ==
            IF monthly_requests > RequestsWarning
            THEN <<Alert("high_monthly_requests",
                         IF monthly_requests < RequestsCritical
                         THEN "warning" ELSE "critical",
                         monthly_requests, RequestsWarning)>>
            ELSE <<>>
        \* avg_tokens = total_tokens / total_requests > 2000
        token_alerts ==
            IF total_tokens > TokensPerRequestInfo * total_requests
            THEN <<Alert("high_token_usage", "info",
                         total_tokens \div total_requests,
                         TokensPerRequestInfo)>>
            ELSE <<>>
    IN  IF u.raised
        THEN [kind |-> "raised", exc |-> "HTTPException", month |-> month,
              alerts |-> <<>>]
        ELSE IF total_requests = 0
        THEN [kind |-> "raised", exc |-> "ZeroDivisionError", month |-> month,
              alerts |-> <<>>]
        ELSE [kind |-> "returned", exc |-> "", month |-> month,
              alerts |-> cost_alerts \o request_alerts \o token_alerts]

\* no usage query is under way
InitQuery ==
    /\ qpc = "idle"
    /\ qdoc = NoDoc
    /\ qres = NoReply
    /\ qarg = 0
    /\ today = 0

\* a query is about to read one of the documents, in month 2
InitAlerts ==
    /\ store = NoDoc
    /\ callers = [c \in Callers |-> IdleCall]
    /\ clock = 1
    /\ current_month = 2
    /\ history = <<>>
    /\ started = 0
    /\ failures = 0
    /\ InitBatch
    /\ qpc = "idle"
    /\ qdoc \in QueryDocs
    /\ qres = NoReply
    /\ qarg = 0
    /\ today = 0
    /\ InitEndpoint

\* GET /usage/alerts/: get_usage_alerts(user_id)
GetUsageAlerts ==
    /\ qpc = "idle"
    /\ qres' = get_usage_alerts(qdoc, current_month)
    /\ qpc' = "done"
    /\ UNCHANGED <<qdoc, qarg, today>>
    /\ UNCHANGED <<ledgerVars, batchVars, endpointVars>>

\* round(x / y) for integers x >= 0, y > 0: to the nearest integer, ties to
\* even
RoundDiv(x, y) ==
    LET q == x \div y
        r == x % y
    IN  IF 2 * r < y THEN q
        ELSE IF 2 * r > y THEN q + 1
        ELSE IF q % 2 = 0 THEN q ELSE q + 1

\* round((part / total) * 100, 1), in tenths of a percent
Percentage(part, total) == RoundDiv(part * 1000, total)

\* max(requests, 1)
AtLeastOne(n) == IF n < 1 THEN 1 ELSE n

\* one entry of a breakdown
BreakdownEntry(name, data, usage_data) ==
    [name |-> name,
     requests |-> data.requests,
     tokens |-> data.tokens,
     cost_usd |-> data.cost_usd,
     request_percentage |-> Percentage(data.requests, usage_data.total_requests),
     token_percentage |-> Percentage(data.tokens, usage_data.total_tokens),
     cost_percentage |-> Percentage(data.cost_usd, usage_data.total_cost_usd),
     avg_tokens_per_request |-> RoundDiv(data.tokens, AtLeastOne(data.requests)),
     avg_cost_per_request |->
         1000 * RoundDiv(data.cost_usd, 1000 * AtLeastOne(data.requests))]

\* the loop of get_agent_breakdown / get_model_breakdown over the buckets
\* of field by_agent / by_model: the first entry already divides by each of
\* the three totals
breakdown(doc, field) ==
    LET u == get_user_usage(doc)
        usage_data == u.usage
        buckets == usage_data[field]
    IN  IF u.raised
        THEN [kind |-> "raised", exc |-> "HTTPException", entries |-> {}]
        ELSE IF DOMAIN buckets # {}
                /\ (\/ usage_data.total_requests = 0
                    \/ usage_data.total_tokens = 0
                    \/ usage_data.total_cost_usd = 0)
        THEN [kind |-> "raised", exc |-> "ZeroDivisionError", entries |-> {}]
        ELSE [kind |-> "returned", exc |-> "",
              entries |-> {BreakdownEntry(k, buckets[k], usage_data) :
                              k \in DOMAIN buckets}]

\* sorted(entries, key=lambda x: x[key], reverse=True): every order of the
\* entries that is descending by key; entries of equal key keep the order
\* the document's map is iterated in, which the store decides
SortedDescending(entries, key) ==
    {s \in [1..Cardinality(entries) -> entries] :
        /\ \A i, j \in DOMAIN s : i # j => s[i] # s[j]
        /\ \A i, j \in DOMAIN s : i < j => s[i][key] >= s[j][key]}

\* GET /usage/agents/: get_agent_breakdown(user_id)
GetAgentBreakdown ==
    /\ qpc = "idle"
    /\ LET r == breakdown(store, "by_agent")
       IN  \E s \in SortedDescending(r.entries, "requests") :
              qres' = [kind |-> r.kind, exc |-> r.exc,
                       query |-> "agent_breakdown", value |-> s]
    /\ qdoc' = store
    /\ qpc' = "done"
    /\ UNCHANGED <<qarg, today>>
    /\ UNCHANGED <<ledgerVars, batchVars, endpointVars>>

\* GET /usage/models/: get_model_breakdown(user_id)
GetModelBreakdown ==
    /\ qpc = "idle"
    /\ LET r == breakdown(store, "by_model")
       IN  \E s \in SortedDescending(r.entries, "tokens") :
              qres' = [kind |-> r.kind, exc |-> r.exc,
                       query |-> "model_breakdown", value |-> s]
    /\ qdoc' = store
    /\ qpc' = "done"
    /\ UNCHANGED <<qarg, today>>
    /\ UNCHANGED <<ledgerVars, batchVars, endpointVars>>

\* the endpoint's cap on limit
RecentLimitCap == 100

\* the limits a client sends: small ones, a negative one, and two at the cap
Limits == (-1..MaxLimit) \cup {RecentLimitCap, RecentLimitCap + 1}

\* s[start:] for any integer start: a negative start counts from the end
SliceFrom(s, start) ==
    LET from == IF start >= 0 THEN start
                ELSE IF Len(s) + start < 0 THEN 0 ELSE Len(s) + start
    IN  IF from >= Len(s) THEN <<>> ELSE SubSeq(s, from + 1, Len(s))

\* the endpoint's limit = min(limit, 100), then get_recent_requests
get_recent_requests(doc, limit) ==
    LET u == get_user_usage(doc)
        capped == IF limit < RecentLimitCap THEN limit ELSE RecentLimitCap
        recent_requests == u.usage.recent_requests
    IN  IF u.raised
        THEN [kind |-> "raised", exc |-> "HTTPException", query |-> "recent",
              value |-> <<>>]
        ELSE [kind |-> "returned", exc |-> "", query |-> "recent",
              value |-> IF Len(recent_requests) > capped
                        THEN SliceFrom(recent_requests, 0 - capped)
                        ELSE recent_requests]

\* GET /usage/recent/?limit=
GetRecentRequests(limit) ==
    /\ qpc = "idle"
    /\ qres' = get_recent_requests(store, limit)
    /\ qarg' = limit
    /\ qdoc' = store
    /\ qpc' = "done"
    /\ UNCHANGED today
    /\ UNCHANGED <<ledgerVars, batchVars, endpointVars>>

\* ------------------------------------------------------- the calendar
\* A date is its number of days since 1 January of year 0, a leap year; a
\* month key is 12 * year + month, the order of the "%Y-%m" strings.
DaysIn(y, m) ==
    IF m = 2 THEN (IF y % 4 = 0 THEN 29 ELSE 28)
    ELSE IF m \in {4, 6, 9, 11} THEN 30 ELSE 31

RECURSIVE MonthFrom(_, _, _)
\* the month key of the date d days after the first of month m of year y
MonthFrom(d, y, m) ==
    IF d < DaysIn(y, m) THEN 12 * y + m
    ELSE MonthFrom(d - DaysIn(y, m),
                   IF m = 12 THEN y + 1 ELSE y,
                   IF m = 12 THEN 1 ELSE m + 1)

\* date.strftime("%Y-%m")
MonthKey(d) == MonthFrom(d, 0, 1)

\* the dates of years 0 and 1 from which 30 * MaxMonthsArg days can be
\* subtracted
Dates == (30 * MaxMonthsArg)..(366 + 365 - 1)

RECURSIVE LedgerOf(_, _)
\* the ledger after one merge of SplitterEvent in each month of months, in
\* order, the i-th merge at time i
LedgerOf(months, n) ==
    IF n = 0 THEN NewUsage
    ELSE MergeEvent(LedgerOf(months, n - 1), SplitterEvent, n, months[n])

\* documents of a user on a day of month key c: without a ledger, or with
\* merges in some of the months c - 2, c - 1 and c
DateDocs(c) ==
    {[exists |-> TRUE, data |-> EmptyDict]} \cup
    {[exists |-> TRUE,
      data |-> [k \in {"ai_usage"} |-> LedgerOf(months, Len(months))]] :
        months \in {<<c>>, <<c - 1>>, <<c - 2, c>>,
                    <<c - 2, c - 1, c - 1, c, c, c>>}}

\* get_monthly_usage, lines 143-150: one entry of the list
MonthEntry(monthly_data, month_key) ==
    LET data == IF month_key \in DOMAIN monthly_data
                THEN monthly_data[month_key] ELSE NewMonth
    IN  [month |-> month_key, requests |-> data.requests,
         tokens |-> data.tokens, cost_usd |-> data.cost_usd,
         by_agent |-> data.by_agent, by_model |-> data.by_model]

\* get_monthly_usage: entry i of the loop is for the month of the date
\* 30 * i days before now; the list is returned reversed
get_monthly_usage(doc, now, months) ==
    LET u == get_user_usage(doc)
    IN  IF u.raised
        THEN [kind |-> "raised", exc |-> "HTTPException",
              query |-> "monthly", value |-> <<>>]
        ELSE [kind |-> "returned", exc |-> "", query |-> "monthly",
              value |-> [j \in 1..months |->
                           MonthEntry(u.usage.monthly,
                                      MonthKey(now - 30 * (months - j)))]]

\* GET /usage/monthly/: get_monthly_usage(user_id, months)
GetMonthlyUsage ==
    /\ qpc = "idle"
    /\ qres' = get_monthly_usage(qdoc, today, qarg)
    /\ qpc' = "done"
    /\ UNCHANGED <<qdoc, qarg, today>>
    /\ UNCHANGED <<ledgerVars, batchVars, endpointVars>>

\* round(x / y) for any integer x and y > 0, ties to even
RoundSigned(x, y) == IF x >= 0 THEN RoundDiv(x, y) ELSE 0 - RoundDiv(0 - x, y)

\* calculate_change, lines 51-62; change_percent in tenths of a percent
calculate_change(current, previous) ==
    IF previous = 0
    THEN [value |-> current, change_percent |-> 0, trend |-> "neutral"]
    ELSE [value |-> current,
          change_percent |-> RoundSigned((current - previous) * 1000, previous),
          trend |-> IF current > previous THEN "up"
                    ELSE IF current < previous THEN "down" ELSE "neutral"]

\* one entry of top_agents / top_models
TopEntry(name, data) ==
    [name |-> name, requests |-> data.requests, tokens |-> data.tokens,
     cost_usd |-> data.cost_usd,
     avg_tokens |-> RoundDiv(data.tokens, AtLeastOne(data.requests))]

\* the first five elements: s[:5]
TopFive(s) == IF Len(s) <= 5 THEN s ELSE SubSeq(s, 1, 5)

\* get_usage_summary without its two top lists: last_month is the month of
\* the date 30 days before now
get_usage_summary(doc, now) ==
    LET u == get_user_usage(doc)
        usage_data == u.usage
        month_current == MonthKey(now)
        last_month == MonthKey(now - 30)
        current_month_data ==
            IF month_current \in DOMAIN usage_data.monthly
            THEN usage_data.monthly[month_current] ELSE NewBucket
        last_month_data ==
            IF last_month \in DOMAIN usage_data.monthly
            THEN usage_data.monthly[last_month] ELSE NewBucket
    IN  IF u.raised
        THEN [kind |-> "raised", exc |-> "HTTPException", query |-> "summary",
              value |-> EmptyDict]
        ELSE [kind |-> "returned", exc |-> "", query |-> "summary",
              value |->
                [overview |->
                    [total_requests |-> usage_data.total_requests,
                     total_tokens |-> usage_data.total_tokens,
                     total_cost_usd |-> usage_data.total_cost_usd,
                     avg_tokens_per_request |->
                         RoundDiv(usage_data.total_tokens,
                                  AtLeastOne(usage_data.total_requests))],
                 current_month |->
                    [requests |-> calculate_change(current_month_data.requests,
                                                   last_month_data.requests),
                     tokens |-> calculate_change(current_month_data.tokens,
                                                 last_month_data.tokens),
                     cost_usd |-> calculate_change(current_month_data.cost_usd,
                                                   last_month_data.cost_usd)]]]

\* GET /usage/summary/: get_usage_summary(user_id)
GetUsageSummary ==
    /\ qpc = "idle"
    /\ LET r == get_usage_summary(qdoc, today)
           usage_data == get_user_usage(qdoc).usage
           agents == {TopEntry(k, usage_data.by_agent[k]) :
                        k \in DOMAIN usage_data.by_agent}
           models == {TopEntry(k, usage_data.by_model[k]) :
                        k \in DOMAIN usage_data.by_model}
       IN  \E a \in SortedDescending(agents, "requests"),
              m \in SortedDescending(models, "tokens") :
              qres' = [r EXCEPT !.value =
                          IF r.kind = "returned"
                          THEN [overview |-> r.value.overview,
                                current_month |-> r.value.current_month,
                                top_agents |-> TopFive(a),
                                top_models |-> TopFive(m)]
                          ELSE r.value]
    /\ qpc' = "done"
    /\ UNCHANGED <<qdoc, qarg, today>>
    /\ UNCHANGED <<ledgerVars, batchVars, endpointVars>>

\* a query with date arithmetic is about to run on some day, with some
\* months argument, on one of the documents of that day
InitDates ==
    /\ today \in Dates
    /\ qarg \in 1..MaxMonthsArg
    /\ qdoc \in DateDocs(MonthKey(today))
    /\ qpc = "idle"
    /\ qres = NoReply
    /\ store = NoDoc
    /\ callers = [c \in Callers |-> IdleCall]
    /\ clock = 1
    /\ current_month = MonthKey(today)
    /\ history = <<>>
    /\ started = 0
    /\ failures = 0
    /\ InitBatch
    /\ InitEndpoint

\* ----------------------------------------------------- specifications
Init == InitLedger /\ InitBatch /\ InitQuery /\ InitEndpoint

\* the endpoint is about to classify some query text
InitDetect ==
    /\ InitLedger /\ InitBatch /\ InitQuery
    /\ query_text \in MoneyTexts
    /\ expense_type = "none"
    /\ save_to_db = FALSE
    /\ saved = <<>>
    /\ epc = "idle"
    /\ tracked = NoTracked

\* a request is about to be handled, with or without save_to_db
InitSave ==
    /\ InitLedger /\ InitBatch /\ InitQuery
    /\ query_text = <<>>
    /\ expense_type = "none"
    /\ save_to_db \in BOOLEAN
    /\ saved = <<>>
    /\ epc = "idle"
    /\ tracked = NoTracked

NextBatch ==
    \/ \E t \in BatchTexts : Call(t)
    \/ SplitMissingKey
    \/ \E frags \in DelegatedSplits : SplitDelegated(frags)
    \/ SplitFallback
    \/ \E llm \in LLMOutputs : ParseSingle(llm)
    \/ SubmitAll
    \/ \E i \in 1..Len(units) : WorkerStart(i)
    \/ \E i \in 1..Len(units), llm \in LLMOutputs : WorkerFinish(i, llm)
    \/ \E i \in 1..Len(units) : WorkerHang(i)
    \/ \E i \in 1..Len(units) : Collect(i)
    \/ ReturnBatch
    \/ DeadlineElapses
    \/ RaiseTimeout
    \/ \E aliased \in BOOLEAN : ShutdownReturn(aliased)

SpecBatch == Init /\ [][NextBatch]_vars

\* the splitter alone, over every short text
NextSplit ==
    \/ \E t \in SplitTexts : Call(t)
    \/ SplitMissingKey
    \/ \E frags \in DelegatedSplits : SplitDelegated(frags)
    \/ SplitFallback

SpecSplit == Init /\ [][NextSplit]_vars

\* the pool path with more fragments than threads, every delegation
\* answering before the deadline
NextPool ==
    \/ Call(<<"x">>)
    \/ \E frags \in PoolSplits : SplitDelegated(frags)
    \/ SubmitAll
    \/ \E i \in 1..Len(units) : WorkerStart(i)
    \/ \E i \in 1..Len(units), llm \in PoolOutputs : WorkerFinish(i, llm)
    \/ \E i \in 1..Len(units) : Collect(i)
    \/ ReturnBatch

SpecPool == Init /\ [][NextPool]_vars

\* one alerts query on each document
NextAlerts == GetUsageAlerts

SpecAlerts == InitAlerts /\ [][NextAlerts]_vars

\* --------------------------------------------------------- properties
\* the persisted ledger of the user
Ledger ==
    IF store.exists /\ "ai_usage" \in DOMAIN store.data
    THEN store.data["ai_usage"] ELSE NewUsage

\* the committed events of history whose field (agent or model) is key
Matching(field, key) == {i \in 1..Len(history) : history[i][field] = key}

RECURSIVE TokensAt(_)
TokensAt(is) ==
    IF is = {} THEN 0
    ELSE LET i == CHOOSE x \in is : TRUE
         IN  history[i].tokens.total + TokensAt(is \ {i})

\* buckets holds exactly the keys seen in history, each with its own counts
BucketsMatchHistory(buckets, field, keys) ==
    \A k \in keys :
        IF Matching(field, k) = {} THEN k \notin DOMAIN buckets
        ELSE /\ k \in DOMAIN buckets
             /\ buckets[k].requests = Cardinality(Matching(field, k))
             /\ buckets[k].tokens = TokensAt(Matching(field, k))

\* C1: when n log_usage calls for one user have run with their reads and
\* writes interleaved in any order and none is in flight any more, the
\* persisted total_requests is n and total_tokens is the sum of their tokens.
C1_NoLostUpdates ==
    NoCallInFlight =>
        /\ Ledger.total_requests = Len(history)
        /\ Ledger.total_tokens = SumTokens(history)

\* C2: in every persisted ledger reachable by interleaved log_usage calls, the
\* requests of the by_agent buckets sum to total_requests, and so do the
\* requests of the by_model buckets.
C2_BucketRequestsSumToTotal ==
    /\ SumField(Ledger.by_agent, "requests") = Ledger.total_requests
    /\ SumField(Ledger.by_model, "requests") = Ledger.total_requests

\* C3: after events merged one at a time from no ledger, total_requests is
\* their number, total_tokens the sum of their tokens, the requests and the
\* tokens of the by_agent and of the by_model buckets sum to the totals, and
\* each bucket counts exactly its own events (so it started from zero).
C3_SequentialTotalsAndBuckets ==
    /\ Ledger.total_requests = Len(history)
    /\ Ledger.total_tokens = SumTokens(history)
    /\ SumField(Ledger.by_agent, "requests") = Ledger.total_requests
    /\ SumField(Ledger.by_agent, "tokens") = Ledger.total_tokens
    /\ SumField(Ledger.by_model, "requests") = Ledger.total_requests
    /\ SumField(Ledger.by_model, "tokens") = Ledger.total_tokens
    /\ BucketsMatchHistory(Ledger.by_agent, "agent", Agents)
    /\ BucketsMatchHistory(Ledger.by_model, "model", Models)

\* three events merged, two for one agent and one for another, with tokens
C3_Witness ==
    /\ Len(history) >= 3
    /\ DOMAIN Ledger.by_agent = Agents
    /\ \E a \in Agents : Ledger.by_agent[a].requests >= 2
    /\ Ledger.total_tokens > 0

\* C4: after sequential merges recent_requests holds at most 100 entries,
\* exactly 100 once more than 100 events were merged, and they are the most
\* recently merged events in merge order, the newest last.
C4_RecentRequestsCap ==
    LET recent == Ledger.recent_requests
        n == Len(history)
    IN  /\ Len(recent) <= 100
        /\ Len(recent) <= n
        /\ n > 100 => Len(recent) = 100
        /\ n <= 100 => Len(recent) = n
        /\ \A i \in 1..Len(recent) : recent[i] = history[n - Len(recent) + i]

\* more than 100 events merged and the oldest evicted
C4_Witness ==
    /\ Len(history) > 100
    /\ Len(Ledger.recent_requests) = 100
    /\ Ledger.recent_requests[1] # history[1]

\* the fragments of the batch, and those whose parse gave a positive amount
NFragments == Len(expense_texts)

KSucceeded == Cardinality({i \in DOMAIN parsed : parsed[i].amount > 0})

\* the entries of an error string: its pieces other than the separators
ErrorEntries(error) == Cardinality({k \in 1..Len(error) : error[k].kind # "; "})

\* C5: when the deadline elapsed with some units already completed with a
\* success and at least one not completed, the returned result holds every
\* one of those successes and a timeout error.
C5_PartialResultsReturned ==
    (opc = "returned" /\ timedOut
        /\ atDeadline.ok # {} /\ atDeadline.unfinished # {}) =>
        /\ Len(result.expenses) >= Cardinality(atDeadline.ok)
        /\ \A i \in atDeadline.ok :
              \E k \in 1..Len(result.expenses) :
                  result.expenses[k] = ExpenseData(units[i].result)
        /\ result.error # <<>>

\* C6: once the deadline has expired and the wait was abandoned, the call can
\* return although a submitted fragment parse never completes.
C6_ReturnsDespiteHangingUnit ==
    (opc = "shutdown" /\ \E i \in 1..Len(units) : units[i].status = "hung") =>
        ENABLED (\E aliased \in BOOLEAN : ShutdownReturn(aliased))

\* C7: a batch of N >= 1 fragments, all parsed, K of them with a positive
\* amount, no deadline expiry: the result holds exactly K expenses and N-K
\* error entries, and total_count is K.
C7_ExactlyKSuccesses ==
    (opc = "returned" /\ ~timedOut /\ NFragments >= 1
        /\ DOMAIN parsed = 1..NFragments) =>
        /\ Len(result.expenses) = KSucceeded
        /\ ErrorEntries(result.error) = NFragments - KSucceeded
        /\ result.total_count = KSucceeded

\* C8: every expense of a returned result has a strictly positive amount.
C8_SuccessesHavePositiveAmount ==
    opc = "returned" =>
        \A k \in 1..Len(result.expenses) : result.expenses[k].amount > 0

\* C9: parse_multiple_expenses never raises; whatever it returns has
\* total_count equal to the length of expenses and original_text equal to
\* the input text.
C9_NeverRaisesWellFormed ==
    /\ opc # "raised"
    /\ opc = "returned" =>
          /\ result.total_count = Len(result.expenses)
          /\ result.original_text = text

\* a result returned by an except clause after the deadline expired with a
\* fragment already parsed
C9_Witness ==
    /\ opc = "returned"
    /\ timedOut
    /\ DOMAIN parsed # {}
    /\ result.error # <<>>
    /\ result.original_text = text

\* C10: a result returned with zero expenses for a non-empty input text has
\* a non-empty error.
C10_ZeroSuccessesCarryError ==
    (opc = "returned" /\ text # <<>> /\ Len(result.expenses) = 0) =>
        result.error # <<>>

\* C11: the fallback path returns the trimmed non-empty segments of the
\* text in input order, or the text itself as the only fragment when there
\* is no such segment; on either path the splitter returns at least one
\* fragment.
C11_SplitterYieldsAFragment ==
    /\ via = "fallback" =>
          expense_texts = IF FallbackSplit(text) = <<>> THEN <<text>>
                          ELSE FallbackSplit(text)
    /\ via \in {"fallback", "delegated"} => Len(expense_texts) >= 1

\* C12: split_multi_expense_text never raises; whenever the delegation could
\* not be performed (no credentials, or the call failed) it returns the
\* fallback split of the text.
C12_SplitterNeverRaises ==
    /\ via # "raised"
    /\ answer.kind \in {"nokey", "failed"} =>
          via = "fallback" /\ expense_texts = FallbackSplit(text)

\* C13: when the splitter returns the delegation's answer, exactly one usage
\* event of agent "multi_expense_parser_splitter" has been merged into the
\* ledger (empty before the call); when it returns the fallback split, none.
C13_SplitterEventMerged ==
    /\ via = "delegated" =>
          /\ Ledger.total_requests = 1
          /\ DOMAIN Ledger.by_agent = {"multi_expense_parser_splitter"}
          /\ Ledger.by_agent["multi_expense_parser_splitter"].requests = 1
    /\ via = "fallback" => Ledger.total_requests = 0

\* C14: every fragment parse of a batch is followed by one usage event in
\* the ledger: when the batch has returned, total_requests has grown (from
\* zero) by at least the number of fragments parse_expense was run on.
C14_FragmentParsesAreMetered ==
    opc = "returned" => Ledger.total_requests >= Cardinality(DOMAIN parsed)

\* C15: a failure inside log_usage stays inside it: the call returns
\* normally and the stored document is what it was before the failing step;
\* and when the splitter's delegation answered, the splitter returns that
\* answer although its metering call failed.
C15_MeteringFailureContained ==
    /\ [][failures' # failures => store' = store]_vars
    /\ [](\A c \in Callers : callers[c].pc # "raised")
    /\ [](answer.kind = "answered" =>
            via = "delegated" /\ expense_texts = answer.fragments)

\* a ledger exists, one call failed at the read and one at the write, and the
\* splitter has returned a delegated answer
C15_Witness ==
    /\ failures = 2
    /\ NoCallInFlight
    /\ Ledger.total_requests = 1
    /\ answer.kind = "answered"
    /\ Len(answer.fragments) = 2

\* C16: when the splitter returned exactly one fragment, no pool is created
\* and nothing is submitted to one, parse_expense is run once and no more,
\* and the batch returned counts at most one success.
C16_SingleFragmentParsedDirectly ==
    (via \in {"delegated", "fallback"} /\ Len(expense_texts) = 1) =>
        /\ ~pool
        /\ units = <<>>
        /\ calls <= 1
        /\ opc = "returned" => calls = 1 /\ result.total_count <= 1

\* a single fragment has been parsed and returned as the one success
C16_Witness ==
    /\ opc = "returned"
    /\ Len(expense_texts) = 1
    /\ calls = 1
    /\ result.total_count = 1
    /\ Len(result.expenses) = 1

\* C17: on the pool path there is one work item per fragment, in order, each
\* started at most once (all of them once the batch returns normally), and
\* never more than 5 of them are executing at the same time.
C17_PoolBoundedEachFragmentOnce ==
    pool =>
        /\ Len(units) = Len(expense_texts)
        /\ \A i \in 1..Len(units) : units[i].text = expense_texts[i]
        /\ calls = Cardinality({i \in 1..Len(units) : units[i].status # "queued"})
        /\ Cardinality(Running) <= 5
        /\ (opc = "returned" /\ ~timedOut) => calls = Len(units)

\* five parses are executing and a sixth fragment waits for a thread
C17_Witness ==
    /\ pool
    /\ Cardinality(Running) = 5
    /\ \E i \in 1..Len(units) : units[i].status = "queued"

\* the bucket of the month the query ran in
QueriedBucket ==
    IF qdoc.exists /\ "ai_usage" \in DOMAIN qdoc.data
          /\ qres.month \in DOMAIN qdoc.data["ai_usage"].monthly
    THEN qdoc.data["ai_usage"].monthly[qres.month]
    ELSE MonthBucket(0, 0, 0)

\* the alerts of this type in the reply
AlertsOf(type) ==
    {i \in 1..Len(qres.alerts) : qres.alerts[i].type = type}

\* the reply has one alert of this type, of this severity
HasAlert(type, severity) ==
    /\ Cardinality(AlertsOf(type)) = 1
    /\ \A i \in AlertsOf(type) : qres.alerts[i].severity = severity

\* C18: a returned reply holds a cost (requests) alert exactly when the
\* month's cost (requests) is above 10.00 (1000); the alert is critical
\* exactly when the value is above 25.00 (2500) and a warning otherwise.
C18_ThresholdAlertsStrict ==
    qres.kind = "returned" =>
        LET b == QueriedBucket
        IN  /\ IF b.cost_usd > 25000000
               THEN HasAlert("high_monthly_cost", "critical")
               ELSE IF b.cost_usd > 10000000
               THEN HasAlert("high_monthly_cost", "warning")
               ELSE AlertsOf("high_monthly_cost") = {}
            /\ IF b.requests > 2500
               THEN HasAlert("high_monthly_requests", "critical")
               ELSE IF b.requests > 1000
               THEN HasAlert("high_monthly_requests", "warning")
               ELSE AlertsOf("high_monthly_requests") = {}

\* C19: a returned reply holds the high_token_usage alert exactly when the
\* tokens of the month the query ran in exceed 2000 per request of that
\* month, whatever the other months hold.
C19_TokenAlertFromCurrentMonth ==
    qres.kind = "returned" =>
        LET b == QueriedBucket
        IN  (AlertsOf("high_token_usage") # {}) <=>
                (b.requests > 0 /\ b.tokens > 2000 * b.requests)

\* C20: for every existing user document the alerts query returns a list;
\* for one with no ledger, or a ledger of zero requests, the empty list.
C20_AlertsForEveryExistingUser ==
    (qpc = "done" /\ qdoc.exists) =>
        /\ qres.kind = "returned"
        /\ get_user_usage(qdoc).usage.total_requests = 0 => qres.alerts = <<>>

\* the buckets a breakdown reply was computed from
BrokenDown ==
    IF qres.query = "agent_breakdown"
    THEN get_user_usage(qdoc).usage.by_agent
    ELSE get_user_usage(qdoc).usage.by_model

\* C21: on every ledger that log_usage merges have produced, the agent and
\* the model breakdown return: one entry per bucket, carrying the bucket's
\* counts, in descending order of requests (agents) or tokens (models).
C21_BreakdownsNeverFail ==
    (qpc = "done" /\ qres.query \in {"agent_breakdown", "model_breakdown"}
        /\ qdoc.exists) =>
        /\ qres.kind = "returned"
        /\ {qres.value[i].name : i \in DOMAIN qres.value} = DOMAIN BrokenDown
        /\ Len(qres.value) = Cardinality(DOMAIN BrokenDown)
        /\ \A i \in DOMAIN qres.value :
              qres.value[i].requests = BrokenDown[qres.value[i].name].requests
        /\ \A i, j \in DOMAIN qres.value :
              i < j =>
                 IF qres.query = "agent_breakdown"
                 THEN qres.value[i].requests >= qres.value[j].requests
                 ELSE qres.value[i].tokens >= qres.value[j].tokens

\* C22: get_monthly_usage(user, N) returns N entries; the last is the
\* current month and each entry is the calendar month after the one before
\* it, so no month is repeated or skipped; a month the ledger has no bucket
\* for is a zeroed entry.
C22_MonthlySeriesConsecutive ==
    (qpc = "done" /\ qres.query = "monthly") =>
        /\ qres.kind = "returned"
        /\ Len(qres.value) = qarg
        /\ qres.value[qarg].month = MonthKey(today)
        /\ \A j \in 1..(qarg - 1) :
              qres.value[j + 1].month = qres.value[j].month + 1
        /\ \A j \in 1..qarg :
              qres.value[j] =
                 MonthEntry(get_user_usage(qdoc).usage.monthly,
                            qres.value[j].month)

\* the bucket of the month of key m in the document queried
BucketOfMonth(m) ==
    LET monthly == get_user_usage(qdoc).usage.monthly
    IN  IF m \in DOMAIN monthly THEN monthly[m] ELSE NewMonth

\* C23: the month-over-month figures of the summary compare the bucket of
\* the current calendar month with the bucket of the calendar month before
\* it (change 0, trend neutral, when that month's value is zero).
C23_SummaryComparesPreviousMonth ==
    (qpc = "done" /\ qres.query = "summary") =>
        /\ qres.kind = "returned"
        /\ LET cur == BucketOfMonth(MonthKey(today))
               prev == BucketOfMonth(MonthKey(today) - 1)
               mom == qres.value.current_month
           IN  /\ mom.requests = calculate_change(cur.requests, prev.requests)
               /\ mom.tokens = calculate_change(cur.tokens, prev.tokens)
               /\ mom.cost_usd = calculate_change(cur.cost_usd, prev.cost_usd)

\* the smaller of two integers
Smaller(a, b) == IF a < b THEN a ELSE b

\* C24: for a limit of 0 or more the recent-requests query returns
\* min(min(limit, 100), stored) events: the last ones of the stored list, in
\* its order.
C24_RecentRequestsAtMostLimit ==
    (qpc = "done" /\ qres.query = "recent" /\ qarg >= 0 /\ qdoc.exists) =>
        LET stored == get_user_usage(qdoc).usage.recent_requests
            n == Smaller(Smaller(qarg, 100), Len(stored))
        IN  /\ qres.kind = "returned"
            /\ Len(qres.value) = n
            /\ \A i \in 1..n :
                  qres.value[i] = stored[Len(stored) - n + i]

\* the months some call in flight has stamped its event with
MonthsInFlight == {callers[c].month : c \in {d \in Callers : callers[d].pc = "read"}}

\* C25: with log_usage calls run one at a time, the monthly buckets add up
\* to the totals (requests and tokens), inside every month the by_agent and
\* the by_model requests each add up to the month's requests, and a merge
\* leaves every month's bucket as it was except the month of its event.
C25_MonthlyBucketsConsistent ==
    /\ [](/\ SumField(Ledger.monthly, "requests") = Ledger.total_requests
          /\ SumField(Ledger.monthly, "tokens") = Ledger.total_tokens
          /\ \A m \in DOMAIN Ledger.monthly :
                /\ SumField(Ledger.monthly[m].by_agent, "requests")
                      = Ledger.monthly[m].requests
                /\ SumField(Ledger.monthly[m].by_model, "requests")
                      = Ledger.monthly[m].requests)
    /\ [][\A m \in DOMAIN Ledger.monthly :
             m \notin MonthsInFlight =>
                /\ m \in DOMAIN Ledger'.monthly
                /\ Ledger'.monthly[m] = Ledger.monthly[m]]_vars

\* three events merged over two months, the later month holding two agents
C25_Witness ==
    /\ NoCallInFlight
    /\ Ledger.total_requests = 3
    /\ DOMAIN Ledger.monthly = {1, 2}
    /\ Cardinality(DOMAIN Ledger.monthly[2].by_agent) = 2

\* the matches of money_regex that carry a currency symbol or a currency
\* word
MoneyAmounts(t) ==
    LET matches == findall(t, 1)
    IN  {k \in 1..Len(matches) : matches[k].symbol \/ matches[k].code}

\* C26: detect_expense_count answers 'multiple' exactly when the text holds
\* two or more numbers with a currency symbol or a currency word, and
\* 'single' otherwise; numbers without either do not count.
C26_DetectCountsMoneyAmounts ==
    expense_type # "none" =>
        expense_type = IF Cardinality(MoneyAmounts(query_text)) >= 2
                       THEN "multiple" ELSE "single"

\* C27: the write of log_usage leaves every field of the user's document
\* other than ai_usage as the store held it just before the write, also
\* when a profile update was committed between log_usage's read and write.
C27_LogUsageWritesOnlyAiUsage ==
    [][history' # history =>
          \A k \in DOMAIN store.data \ {"ai_usage"} :
              /\ k \in DOMAIN store'.data
              /\ store'.data[k] = store.data[k]]_vars

\* C28: with save_to_db the endpoint stores one document per expense of
\* the result it returns and none for a fragment whose parse failed: no
\* stored document has amount 0 or is the 'generic purchase' fallback.
C28_SavesOnlyParsedExpenses ==
    (epc = "responded" /\ save_to_db) =>
        /\ Len(saved) = Len(result.expenses)
        /\ \A i \in 1..Len(saved) :
              /\ saved[i] = expense_dict(result.expenses[i], text)
              /\ saved[i].amount # 0
              /\ saved[i].short_text # "generic purchase"

\* C29: get_user_usage tells a missing user from a store failure: it fails
\* with status 404 when the user's document does not exist, and with status
\* 500 only when reading the store failed.
C29_MissingUserIs404 ==
    (qpc = "done" /\ qres.kind = "raised") =>
        /\ qres.cause = "HTTPException" => qres.status = 404
        /\ qres.status = 500 => qres.cause = "StoreError"

\* C30: a call of a decorated synchronous function with user id and store
\* client found, once over, has run the body exactly once; when the body
\* completed normally the call returned what the undecorated function
\* returns and logged exactly one event, with success=True; when the body
\* raised no success event was logged.
C30_SyncWrapperRunsAndLogsOnce ==
    (tracked.pc \in {"returned", "raised"} /\ tracked.identified) =>
        /\ tracked.body_runs = 1
        /\ tracked.body # "raises" =>
              /\ tracked.pc = "returned"
              /\ tracked.returned = BodyResult(tracked.body)
              /\ tracked.logged = <<TRUE>>
        /\ tracked.body = "raises" =>
              \A i \in 1..Len(tracked.logged) : ~tracked.logged[i]

\* ------------------------------------------------ ledger specifications
\* callers whose reads and writes interleave freely
NextConc ==
    \/ \E c \in Callers, ev \in Events :
          started < MaxConcEvents /\ LogUsageRead(c, ev)
    \/ \E c \in Callers : LogUsageWrite(c)
    \/ AdvanceMonth

SpecConc == Init /\ [][NextConc]_vars

\* one call at a time: a call starts only when no other is in flight
NextSeq ==
    \/ \E c \in Callers, ev \in Events :
          started < MaxSeqEvents /\ NoCallInFlight /\ LogUsageRead(c, ev)
    \/ \E c \in Callers : LogUsageWrite(c)
    \/ AdvanceMonth

SpecSeq == Init /\ [][NextSeq]_vars

\* one caller, one call at a time, within one month, long enough to overflow
\* recent_requests
NextCap ==
    \/ \E ev \in CapEvents :
          started < MaxCapEvents /\ NoCallInFlight /\ LogUsageRead(1, ev)
    \/ LogUsageWrite(1)

SpecCap == Init /\ [][NextCap]_vars

\* one caller, one call at a time, the store failing some reads and writes;
\* beside it the splitter, whose metering call fails
NextMeter ==
    \/ started < MaxMeterEvents /\ NoCallInFlight /\ LogUsageRead(1, SplitterEvent)
    \/ LogUsageWrite(1)
    \/ started < MaxMeterEvents /\ NoCallInFlight
          /\ LogUsageReadFails(1, SplitterEvent)
    \/ LogUsageWriteFails(1)
    \/ \E t \in BatchTexts : Call(t)
    \/ SplitMissingKey
    \/ \E frags \in DelegatedSplits : SplitDelegated(frags)
    \/ SplitFallback

SpecMeter == Init /\ [][NextMeter]_vars

\* one caller's merges, one at a time, and then one usage query on the ledger
NextQuery ==
    \/ \E ev \in Events :
          /\ qpc = "idle" /\ started < MaxQueryEvents /\ NoCallInFlight
          /\ LogUsageRead(1, ev)
    \/ qpc = "idle" /\ LogUsageWrite(1)
    \/ qpc = "idle" /\ AdvanceMonth
    \/ GetAgentBreakdown
    \/ GetModelBreakdown
    \/ \E limit \in Limits : GetRecentRequests(limit)

SpecQuery == Init /\ [][NextQuery]_vars

\* one query with date arithmetic, on each day
NextDates ==
    \/ GetMonthlyUsage
    \/ GetUsageSummary

SpecDates == InitDates /\ [][NextDates]_vars

\* the classification of every short query text
NextDetect == DetectExpenseCount

SpecDetect == InitDetect /\ [][NextDetect]_vars

\* log_usage calls one at a time, with profile updates of the same user
\* at any moment
NextProfile ==
    \/ \E ev \in Events :
          /\ started < MaxProfileEvents /\ NoCallInFlight
          /\ LogUsageRead(1, ev)
    \/ LogUsageWrite(1)
    \/ \E update_dict \in UserUpdates : UpdateUserData(update_dict)

SpecProfile == Init /\ [][NextProfile]_vars

\* the endpoint with every delegation answering before the deadline
NextSave ==
    \/ \E t \in BatchTexts : Call(t)
    \/ \E frags \in DelegatedSplits : SplitDelegated(frags)
    \/ SplitFallback
    \/ \E llm \in LLMOutputs : ParseSingle(llm)
    \/ SubmitAll
    \/ \E i \in 1..Len(units) : WorkerStart(i)
    \/ \E i \in 1..Len(units), llm \in PoolOutputs : WorkerFinish(i, llm)
    \/ \E i \in 1..Len(units) : Collect(i)
    \/ ReturnBatch
    \/ SaveToDb
    \/ \E n \in 0..MaxFragments : SaveFails(n)

SpecSave == InitSave /\ [][NextSave]_vars

\* get_user_usage on each document, the store readable or not
NextUser == \E read_fails \in BOOLEAN : GetUserUsage(read_fails)

SpecUser == InitAlerts /\ [][NextUser]_vars

\* calls of a decorated synchronous function, one after the other
NextTrack ==
    \/ \E ev \in Events, identified \in BOOLEAN, body \in Bodies,
          running_loop \in BOOLEAN :
          CallDecorated(ev, identified, body, running_loop)
    \/ AwaitFunc
    \/ LogSuccess
    \/ LogFailure

SpecTrack == Init /\ [][NextTrack]_vars

Spec == SpecSeq

====
